---- MODULE Spec2Model ----
(***************************************************************************)
(* VectorDB (mlx_llm/playground/rag/db/vector.py): an in-memory store of   *)
(* (embedding, metadata) pairs held in two parallel Python lists, with     *)
(* cosine-similarity query and save/load to a directory.                   *)
(*                                                                         *)
(* Conventions.  Python positions are 0-based; a Python list is a TLA+     *)
(* sequence, so Python position i is element i+1 of the sequence.  The     *)
(* k-th identifier drawn from uuid.uuid4() is written k.  A similarity     *)
(* dot/(|a|*|b|) is kept exactly as the pair <<dot, |a|^2 * |b|^2>>, i.e.  *)
(* <<n, d>> stands for n / sqrt(d).                                        *)
(***************************************************************************)
EXTENDS Integers, Sequences, FiniteSets, TLC

VARIABLES
    embeddings,   \* self.embeddings: the stored vectors, in insertion order
    embKind,      \* Python type of self.embeddings: "list" or "ndarray"
    metadata,     \* self.metadata: list of {id, text, source, row}
    nextUuid,     \* number of the next identifier uuid4() hands out
    disk,         \* db_path: the names of the files present and their contents
    origin,       \* history: id of a record kept in memory or on disk -> the
                  \* vector that was passed to the add call that created it
    saved,        \* history: the two lists as they were when save last returned
    tally,        \* history, kept in the runs that start from InitCount: the
                  \* numbers of add and delete calls that returned
    last          \* the last call: its name, arguments and outcome

vars == <<embeddings, embKind, metadata, nextUuid, disk, origin, saved, tally,
          last>>

None == "None"

\* ---- bounds and input domains -------------------------------------------
MaxUuids == 3       \* identifiers uuid4() hands out in one run
DefaultTopK == 5    \* top_k=5 in the signature of query

Vectors == {<<1, 0>>, <<0, 1>>, <<1, 1>>}
QueryVectors == {<<1, 0>>, <<1, 1>>, <<1>>}
ArrayKinds == {"np", "mx"}
Texts == {"a"}
Sources == {"doc"}
Rows == {"0"}
TopKs == {1, 2, DefaultTopK}
Uuids == 1..MaxUuids
IntKeys == (0 - 1)..MaxUuids

\* ---- outcome of a call: a return value or a raised exception ------------
Ok(ret) == [exc |-> None, ret |-> ret]
Raise(exc, msg) == [exc |-> exc, msg |-> msg]

\* ---- arithmetic helpers -------------------------------------------------
Abs(x) == IF x < 0 THEN 0 - x ELSE x
Min(a, b) == IF a < b THEN a ELSE b
Max(a, b) == IF a < b THEN b ELSE a

RECURSIVE SumSeq(_)
SumSeq(s) == IF s = <<>> THEN 0 ELSE Head(s) + SumSeq(Tail(s))

Dot(a, b) == SumSeq([i \in 1..Len(a) |-> a[i] * b[i]])
Norm2(a) == Dot(a, a)

\* ---- add ----------------------------------------------------------------
\* lines 24-25: an mx.array becomes np.array(embedding), which holds the same
\* numbers; an np.array is stored as it is.  Either way the stored value is
\* the plain vector and the originating framework is forgotten.
ToNumpy(e) == e.vals

\* faulty variant: a generator that hands out the same identifier again
Uuid4Repeating(c) == 1
\* str(uuid.uuid4()): the c-th draw
Uuid4(c) == c

\* faulty variant: source and row change places
MakeEntrySwapped(id, text, source, row) ==
    [id |-> id, text |-> text, source |-> row, row |-> source]
\* lines 28-33
MakeEntry(id, text, source, row) ==
    [id |-> id, text |-> text, source |-> source, row |-> row]

AppendEmbedding(embs, e) == Append(embs, e)
AppendMetadata(md, entry) == Append(md, entry)

\* ---- _uuid_to_index -----------------------------------------------------
\* faulty variant: the entries are enumerated from 1
UuidToIndexFromOne(md) ==
    [u \in {md[i].id : i \in DOMAIN md} |->
        CHOOSE p \in 1..Len(md) : md[p].id = u]
\* dict comprehension over enumerate(metadata): a later entry overwrites an
\* earlier one with the same id
UuidToIndex(md) ==
    [u \in {md[i].id : i \in DOMAIN md} |->
        CHOOSE p \in 0..(Len(md) - 1) :
            /\ md[p + 1].id = u
            /\ \A r \in 0..(Len(md) - 1) : md[r + 1].id = u => r <= p]

\* ---- delete -------------------------------------------------------------
\* faulty variant: the condition never excludes an element
FilterOutNothing(s, idx, i) == s
\* [x for i, x in enumerate(seq) if i != idx]
RECURSIVE FilterOut(_, _, _)
FilterOut(s, idx, i) ==
    IF s = <<>> THEN <<>>
    ELSE IF i = idx THEN FilterOut(Tail(s), idx, i + 1)
         ELSE <<Head(s)>> \o FilterOut(Tail(s), idx, i + 1)

\* faulty variant: the embeddings are enumerated from 1
DeleteEmbeddingFromOne(embs, idx) == FilterOut(embs, idx, 1)
\* line 84
DeleteEmbedding(embs, idx) == FilterOut(embs, idx, 0)

\* faulty variant: keeps only the entries before idx
DeleteMetadataBefore(md, idx) == SubSeq(md, 1, idx)
\* line 85
DeleteMetadata(md, idx) == FilterOut(md, idx, 0)

\* faulty variant: a missing uuid is skipped instead of raising
DeleteIgnoreMissing(embs, md, u) ==
    IF u \notin DOMAIN UuidToIndex(md)
    THEN [out |-> Ok(None), idx |-> None, embeddings |-> embs, metadata |-> md]
    ELSE LET idx == UuidToIndex(md)[u]
         IN  [out |-> Ok(None), idx |-> idx,
              embeddings |-> DeleteEmbedding(embs, idx),
              metadata |-> DeleteMetadata(md, idx)]

\* delete(uuid) in a store (embs, md): the outcome and the two lists after it
DeleteResult(embs, md, u) ==
    IF u \notin DOMAIN UuidToIndex(md)
    THEN \* line 83: the dict lookup raises, nothing has been assigned
         [out |-> Raise("KeyError", "uuid"), idx |-> None,
          embeddings |-> embs, metadata |-> md]
    ELSE LET idx == UuidToIndex(md)[u]
         IN  [out |-> Ok(None), idx |-> idx,
              embeddings |-> DeleteEmbedding(embs, idx),
              metadata |-> DeleteMetadata(md, idx)]

\* ---- query ---------------------------------------------------------------
\* faulty variant: tests for a missing list instead of an empty one
IsNone(embs) == FALSE
\* line 56
IsEmpty(embs) == Len(embs) = 0

\* sklearn cosine_similarity of two vectors: both are L2-normalised (a zero
\* vector is left as it is) and multiplied, so a zero norm gives 0.
CosineSimilarity(q, e) ==
    IF Norm2(q) = 0 \/ Norm2(e) = 0 THEN <<0, 1>>
    ELSE <<Dot(q, e), Norm2(q) * Norm2(e)>>

\* order of two similarities n/sqrt(d): n*|n|/d is monotone in n/sqrt(d)
SimLess(x, y) == x[1] * Abs(x[1]) * y[2] < y[1] * Abs(y[1]) * x[2]
SimEq(x, y) == x[1] * Abs(x[1]) * y[2] = y[1] * Abs(y[1]) * x[2]
SimGeq(x, y) == ~SimLess(x, y)

\* the orderings of the positions 0..n-1
Permutations0(n) ==
    {[i \in 1..n |-> p[i] - 1] : p \in Permutations(1..n)}

\* np.argsort(similarity), default kind 'quicksort': the positions in
\* ascending order of similarity.  The sort is not stable, so the order of
\* positions with equal similarity is whatever the build produces.
Argsort(sim) ==
    {p \in Permutations0(Len(sim)) :
        \A i, j \in 1..Len(sim) :
            i < j => ~SimLess(sim[p[j] + 1], sim[p[i] + 1])}

\* faulty variant: seq[:k]
FirstK(s, k) == SubSeq(s, 1, Min(k, Len(s)))
\* seq[-k:]
LastK(s, k) ==
    LET n == Len(s)
        start == IF k > 0 THEN Max(n - k, 0) ELSE Min(0 - k, n)
    IN  [i \in 1..(n - start) |-> s[start + i]]

\* faulty variant: the reversal is left out
NotReversed(s) == s
\* seq[::-1]
Reversed(s) == [i \in 1..Len(s) |-> s[Len(s) + 1 - i]]

\* line 60: np.argsort(similarity)[-top_k:][::-1], for one outcome of argsort
TopIndices(order, k) == Reversed(LastK(order, k))

\* faulty variant: the embeddings are not indexed by top_indices
QueryOutputFirstRows(top, sim, embs, md) ==
    IF \E i \in DOMAIN top : top[i] >= Len(md)
    THEN Raise("IndexError", "list index out of range")
    ELSE Ok([i \in DOMAIN top |->
                [metadata |-> md[top[i] + 1],
                 similarity |-> sim[top[i] + 1],
                 embedding |-> embs[i]]])
\* lines 62-74
QueryOutput(top, sim, embs, md) ==
    IF \E i \in DOMAIN top : top[i] >= Len(md)
    THEN Raise("IndexError", "list index out of range")
    ELSE Ok([i \in DOMAIN top |->
                [metadata |-> md[top[i] + 1],
                 similarity |-> sim[top[i] + 1],
                 embedding |-> embs[top[i] + 1]]])

\* faulty variant: the array is assigned to self.embeddings
KindAfterQueryArray(kind) == "ndarray"
\* line 58: np.array(self.embeddings) is bound to the local name emeddings,
\* so self.embeddings stays the object it was
KindAfterQuery(kind) == kind

\* every outcome query(embedding, top_k) can have in a store (embs, md)
QueryOutcomes(embs, md, q, k) ==
    IF IsEmpty(embs)
    THEN {Raise("ValueError", "No embeddings in db")}
    ELSE IF \E i \in DOMAIN embs : Len(embs[i]) # Len(q)
    THEN \* line 59: cosine_similarity rejects rows of another length
         {Raise("ValueError", "Incompatible dimension")}
    ELSE LET sim == [i \in DOMAIN embs |-> CosineSimilarity(q, embs[i])]
         IN  {QueryOutput(TopIndices(p, k), sim, embs, md) : p \in Argsort(sim)}

\* ---- __getitem__ / __len__ ----------------------------------------------
\* seq[i] of a Python list or ndarray, negative positions counted from the end
PyInRange(s, i) == (0 - Len(s)) <= i /\ i < Len(s)
PyAt(s, i) == s[(IF i < 0 THEN Len(s) + i ELSE i) + 1]

GetItem(embs, md, key) ==
    IF key.type = "str" THEN
        IF key.val \notin DOMAIN UuidToIndex(md)
        THEN Raise("KeyError", "uuid not found")
        ELSE LET idx == UuidToIndex(md)[key.val] IN
             IF ~PyInRange(embs, idx)
             THEN Raise("IndexError", "list index out of range")
             ELSE Ok(<<PyAt(embs, idx), PyAt(md, idx)>>)
    ELSE IF key.type = "int" THEN
        IF key.val >= Len(md)
        THEN Raise("IndexError", "idx out of range")
        ELSE IF ~PyInRange(embs, key.val) \/ ~PyInRange(md, key.val)
        THEN Raise("IndexError", "list index out of range")
        ELSE Ok(<<PyAt(embs, key.val), PyAt(md, key.val)>>)
    ELSE Raise("ValueError", "idx must be int or str")

\* line 148
Length(md) == Len(md)

\* ---- save / load --------------------------------------------------------
\* faulty variant: the array is laid out column by column
ToArrayColumnMajor(embs) ==
    IF embs = <<>> THEN [shape |-> <<0>>, data |-> <<>>]
    ELSE LET n == Len(embs)
             d == Len(embs[1])
         IN  [shape |-> <<n, d>>,
              data |-> [c \in 1..(n * d) |->
                          embs[((c - 1) % n) + 1][((c - 1) \div n) + 1]]]

\* np.savez(path, self.embeddings): np.asanyarray of the list of n vectors of
\* length d is the dense row-major array of shape (n, d); of the empty list,
\* the array of shape (0,).  The stored vectors of this model all have the
\* same length.
ToArray(embs) ==
    IF embs = <<>> THEN [shape |-> <<0>>, data |-> <<>>]
    ELSE LET n == Len(embs)
             d == Len(embs[1])
         IN  [shape |-> <<n, d>>,
              data |-> [c \in 1..(n * d) |->
                          embs[((c - 1) \div d) + 1][((c - 1) % d) + 1]]]

\* the items of an array, as len() and indexing of np.load(path)["arr_0"] see
\* them: the rows of a 2-D array, the elements of a 1-D array
ArrayRows(arr) ==
    IF Len(arr.shape) = 1 THEN arr.data
    ELSE LET d == arr.shape[2]
         IN  [i \in 1..arr.shape[1] |->
                 [j \in 1..d |-> arr.data[(i - 1) * d + j]]]

\* pickle.dump / pickle.load of the list of dicts: each dict is written as its
\* items in insertion order (id, text, source, row) and rebuilt from them
PickleDump(md) ==
    [i \in 1..Len(md) |->
        <<<<"id", md[i].id>>, <<"text", md[i].text>>,
          <<"source", md[i].source>>, <<"row", md[i].row>>>>]
PickleLoad(file) ==
    [i \in 1..Len(file) |->
        [k \in {file[i][j][1] : j \in 1..Len(file[i])} |->
            LET j == CHOOSE j \in 1..Len(file[i]) : file[i][j][1] = k
            IN  file[i][j][2]]]

\* ---- history ------------------------------------------------------------
\* the ids of the records held in memory or in the metadata file
KeptIds(md, dsk) ==
    {md[i].id : i \in DOMAIN md}
        \cup {PickleLoad(dsk.meta)[i].id : i \in DOMAIN dsk.meta}

\* the history o with the pair (id, vector) added, kept for the ids in keep
Remember(o, id, vector, keep) ==
    [u \in (DOMAIN o \cup {id}) \cap keep |-> IF u = id THEN vector ELSE o[u]]
Forget(o, keep) == [u \in DOMAIN o \cap keep |-> o[u]]

\* the tally after a call of add or delete with outcome out
Counted(t, op, out) ==
    IF ~t.on THEN t
    ELSE IF op = "add" /\ out.exc = None THEN [t EXCEPT !.adds = @ + 1]
    ELSE IF op = "delete" /\ out.exc = None THEN [t EXCEPT !.deletes = @ + 1]
    ELSE IF op = "delete" THEN [t EXCEPT !.failed = TRUE]
    ELSE t

NoTally == [on |-> FALSE, adds |-> 0, deletes |-> 0, failed |-> FALSE]

\* VectorDB(): both lists empty; nothing under db_path
Created ==
    /\ embeddings = <<>>
    /\ embKind = "list"
    /\ metadata = <<>>
    /\ nextUuid = 1
    /\ disk = [files |-> {}, emb |-> ToArray(<<>>), meta |-> PickleDump(<<>>)]
    /\ origin = <<>>
    /\ saved = [embeddings |-> <<>>, metadata |-> <<>>]
    /\ last = [op |-> "init"]

Init ==
    /\ Created
    /\ tally = NoTally

InitCount ==
    /\ Created
    /\ tally = [on |-> TRUE, adds |-> 0, deletes |-> 0, failed |-> FALSE]

\* add(embedding, text, source, row)
Add(e, text, source, row) ==
    /\ nextUuid <= MaxUuids
    /\ nextUuid' = nextUuid + 1
    /\ UNCHANGED <<disk, embKind, saved>>
    /\ IF embKind = "ndarray"
       THEN \* an ndarray has no append: line 27 raises before line 28
            /\ UNCHANGED <<embeddings, metadata>>
            /\ last' = [op |-> "add", embedding |-> e, text |-> text,
                        source |-> source, row |-> row,
                        out |-> Raise("AttributeError", "append")]
       ELSE /\ embeddings' = AppendEmbedding(embeddings, ToNumpy(e))
            /\ metadata' = AppendMetadata(metadata,
                               MakeEntry(Uuid4(nextUuid), text, source, row))
            /\ last' = [op |-> "add", embedding |-> e, text |-> text,
                        source |-> source, row |-> row, out |-> Ok(None)]
    /\ origin' = Remember(origin, Uuid4(nextUuid), e.vals,
                        KeptIds(metadata', disk'))
    /\ tally' = Counted(tally, "add", last'.out)

\* delete(uuid); again records that the call before it was a delete of the
\* same uuid that returned
Delete(u) ==
    LET res == DeleteResult(embeddings, metadata, u) IN
    /\ UNCHANGED <<nextUuid, disk, saved>>
    /\ tally' = Counted(tally, "delete", res.out)
    /\ embeddings' = res.embeddings
    /\ metadata' = res.metadata
    /\ embKind' = IF res.out.exc = None THEN "list" ELSE embKind
    /\ last' = [op |-> "delete", key |-> u, idx |-> res.idx,
                again |-> (/\ last.op = "delete"
                           /\ last.key = u
                           /\ last.out.exc = None),
                out |-> res.out]
    /\ origin' = Forget(origin, KeptIds(metadata', disk'))

\* drop()
Drop ==
    /\ embeddings' = <<>>
    /\ embKind' = "list"
    /\ metadata' = <<>>
    /\ last' = [op |-> "drop", out |-> Ok(None)]
    /\ UNCHANGED <<nextUuid, disk, saved, tally>>
    /\ origin' = Forget(origin, KeptIds(metadata', disk'))

\* query(embedding, top_k)
Query(q, k) ==
    /\ \E out \in QueryOutcomes(embeddings, metadata, q, k) :
           last' = [op |-> "query", embedding |-> q, top_k |-> k, out |-> out]
    /\ embKind' = IF IsEmpty(embeddings) THEN embKind
                  ELSE KindAfterQuery(embKind)
    /\ UNCHANGED <<embeddings, metadata, nextUuid, disk, origin, saved, tally>>

\* db[key]; afterAdd records that the call before it was an add that returned
Get(key) ==
    /\ last' = [op |-> "get", key |-> key,
                afterAdd |-> (last.op = "add" /\ last.out.exc = None),
                out |-> GetItem(embeddings, metadata, key)]
    /\ UNCHANGED <<embeddings, embKind, metadata, nextUuid, disk, origin,
                   saved, tally>>

\* len(db)
LenCall ==
    /\ last' = [op |-> "len", out |-> Ok(Length(metadata))]
    /\ UNCHANGED <<embeddings, embKind, metadata, nextUuid, disk, origin,
                   saved, tally>>

\* save(db_path)
Save ==
    /\ disk' = [files |-> {"embeddings.npz", "metadata.pkl"},
                emb |-> ToArray(embeddings), meta |-> PickleDump(metadata)]
    /\ last' = [op |-> "save", out |-> Ok(None)]
    /\ saved' = [embeddings |-> embeddings, metadata |-> metadata]
    /\ UNCHANGED <<embeddings, embKind, metadata, nextUuid, tally>>
    /\ origin' = Forget(origin, KeptIds(metadata', disk'))

\* load(db_path); replaced records that the call changed one of the lists
Load ==
    /\ UNCHANGED <<nextUuid, disk, saved, tally>>
    /\ IF "embeddings.npz" \notin disk.files
       THEN \* line 97: np.load raises, nothing has been assigned
            /\ UNCHANGED <<embeddings, embKind, metadata>>
            /\ last' = [op |-> "load", replaced |-> FALSE,
                        out |-> Raise("FileNotFoundError", "embeddings.npz")]
       ELSE /\ embeddings' = ArrayRows(disk.emb)
            /\ embKind' = "ndarray"
            /\ IF "metadata.pkl" \notin disk.files
               THEN \* line 98: open raises after line 97 has assigned
                    /\ UNCHANGED metadata
                    /\ last' = [op |-> "load",
                                replaced |-> (embeddings' # embeddings),
                                out |-> Raise("FileNotFoundError", "metadata.pkl")]
               ELSE /\ metadata' = PickleLoad(disk.meta)
                    /\ last' = [op |-> "load",
                                replaced |-> (\/ embeddings' # embeddings
                                              \/ metadata' # metadata),
                                out |-> Ok(None)]
    /\ origin' = Forget(origin, KeptIds(metadata', disk'))

\* save(db_path) stopped between its two writes: embeddings.npz is written
\* (lines 108-111) and opening metadata.pkl for writing (line 113) raises
SaveInterrupted ==
    /\ disk' = [files |-> disk.files \cup {"embeddings.npz"},
                emb |-> ToArray(embeddings), meta |-> disk.meta]
    /\ last' = [op |-> "save", out |-> Raise("OSError", "metadata.pkl")]
    /\ UNCHANGED <<embeddings, embKind, metadata, nextUuid, saved, tally>>
    /\ origin' = Forget(origin, KeptIds(metadata', disk'))

Keys ==
    [type : {"str"}, val : Uuids] \cup [type : {"int"}, val : IntKeys]
        \cup {[type |-> "float", val |-> 0]}

Next ==
    \/ \E e \in [kind : ArrayKinds, vals : Vectors], t \in Texts,
          s \in Sources, r \in Rows : Add(e, t, s, r)
    \/ \E u \in Uuids : Delete(u)
    \/ Drop
    \/ \E q \in QueryVectors, k \in TopKs : Query(q, k)
    \/ \E key \in Keys : Get(key)
    \/ LenCall
    \/ Save
    \/ Load

Spec == Init /\ [][Next]_vars

\* the calls of add, delete and len alone, counted from a new store
NextCount ==
    \/ \E e \in [kind : ArrayKinds, vals : Vectors], t \in Texts,
          s \in Sources, r \in Rows : Add(e, t, s, r)
    \/ \E u \in Uuids : Delete(u)
    \/ LenCall

SpecCount == InitCount /\ [][NextCount]_vars

\* add, drop, save and load, where a save may stop between its two writes
NextCrash ==
    \/ \E e \in [kind : ArrayKinds, vals : Vectors], t \in Texts,
          s \in Sources, r \in Rows : Add(e, t, s, r)
    \/ Drop
    \/ Save
    \/ SaveInterrupted
    \/ Load

SpecCrash == Init /\ [][NextCrash]_vars

\* ========================================================================
\* Properties
\* ========================================================================
Ids(md) == {md[i].id : i \in DOMAIN md}
StrKey(u) == [type |-> "str", val |-> u]
IntKey(i) == [type |-> "int", val |-> i]
\* the (1-based) place of the record with id u in md
PlaceOf(md, u) == CHOOSE i \in DOMAIN md : md[i].id = u

\* C1: the embeddings and the metadata have the same length, and the
\* embedding at every position is the vector that was passed to the add call
\* that created the metadata record at that position.
C1_Aligned ==
    /\ Len(embeddings) = Len(metadata)
    /\ \A i \in DOMAIN metadata :
           /\ metadata[i].id \in DOMAIN origin
           /\ embeddings[i] = origin[metadata[i].id]

\* the first of three records has been deleted and the two that are left
\* hold different vectors
C1_Witness ==
    /\ last.op = "delete"
    /\ last.out.exc = None
    /\ last.idx = 0
    /\ Len(metadata) = 2
    /\ embeddings[1] # embeddings[2]

\* C2: no two records have the same id, and _uuid_to_index has length()
\* entries and is a bijection onto 0..length()-1.
C2_UniqueIds ==
    LET m == UuidToIndex(metadata) IN
    /\ \A i, j \in DOMAIN metadata :
           metadata[i].id = metadata[j].id => i = j
    /\ Cardinality(DOMAIN m) = Length(metadata)
    /\ {m[u] : u \in DOMAIN m} = 0..(Length(metadata) - 1)
    /\ \A u, v \in DOMAIN m : m[u] = m[v] => u = v

\* a store of two records written by save has been loaded, after a third
\* identifier had been drawn
C2_Witness ==
    /\ last.op = "load"
    /\ last.out.exc = None
    /\ Len(metadata) = 2
    /\ nextUuid > 3

\* C3: delete(id) of a present id returns, length() drops by one, get(id)
\* then fails with KeyError, and every other record keeps its embedding,
\* metadata and id, in the same order, the later ones one position lower.
C3_DeleteRemovesExactlyOne ==
    [][(last'.op = "delete" /\ last'.key \in Ids(metadata)) =>
         LET u == last'.key
             at == PlaceOf(metadata, u)
         IN  /\ last'.out = Ok(None)
             /\ Length(metadata') = Length(metadata) - 1
             /\ Len(embeddings') = Len(embeddings) - 1
             /\ GetItem(embeddings', metadata', StrKey(u)).exc = "KeyError"
             /\ \A i \in DOMAIN metadata :
                    i # at =>
                      LET j == IF i < at THEN i ELSE i - 1
                      IN  /\ metadata'[j] = metadata[i]
                          /\ embeddings'[j] = embeddings[i]
                          /\ GetItem(embeddings', metadata',
                                     StrKey(metadata[i].id))
                               = Ok(<<embeddings[i], metadata[i]>>)
      ]_vars

\* the middle one of three records has been deleted
C3_Witness ==
    /\ last.op = "delete"
    /\ last.out.exc = None
    /\ last.idx = 1
    /\ Len(metadata) = 2

\* C4: delete(id) of an id that is not in the collection fails with KeyError
\* and leaves both lists as they were; the second of two deletes of the same
\* id fails with KeyError.
C4_DeleteMissingFails ==
    [][(last'.op = "delete" /\ last'.key \notin Ids(metadata)) =>
         /\ last'.out.exc = "KeyError"
         /\ embeddings' = embeddings
         /\ metadata' = metadata
         /\ embKind' = embKind
      ]_vars

\* the second of two deletes of the same id has failed in a store that
\* still holds another record
C4_Witness ==
    /\ last.op = "delete"
    /\ last.again
    /\ last.out.exc = "KeyError"
    /\ Len(metadata) >= 1

\* the stored vectors all have the length of the query vector q
DimsAgree(q) == \A i \in DOMAIN embeddings : Len(embeddings[i]) = Len(q)
\* the similarity of the query vector q to the record at place p
SimAt(q, p) == CosineSimilarity(q, embeddings[p])
EmptyCollection == Raise("ValueError", "No embeddings in db")

\* C5: in a collection of n >= 1 records, query with top_k >= 1 (and a query
\* vector of the stored length) returns min(top_k, n) results, in
\* non-increasing order of similarity.
C5_CountAndOrder ==
    (/\ last.op = "query"
     /\ Length(metadata) >= 1
     /\ last.top_k >= 1
     /\ DimsAgree(last.embedding)) =>
        /\ last.out.exc = None
        /\ Len(last.out.ret) = Min(last.top_k, Length(metadata))
        /\ \A i, j \in DOMAIN last.out.ret :
               i < j => SimGeq(last.out.ret[i].similarity,
                               last.out.ret[j].similarity)

\* top_k = 2 has cut a collection of three records, and the two results
\* have different similarities
C5_Witness ==
    /\ last.op = "query"
    /\ last.out.exc = None
    /\ last.top_k = 2
    /\ Length(metadata) = 3
    /\ Len(last.out.ret) = 2
    /\ SimLess(last.out.ret[2].similarity, last.out.ret[1].similarity)

\* C6: no record appears twice in a query result, and no record left out of
\* it is strictly more similar to the query than a record in it.
C6_TopK ==
    (last.op = "query" /\ last.out.exc = None) =>
        LET ret == last.out.ret
            q == last.embedding
        IN  /\ \A i, j \in DOMAIN ret :
                   ret[i].metadata.id = ret[j].metadata.id => i = j
            /\ \A i \in DOMAIN ret : ret[i].metadata.id \in Ids(metadata)
            /\ \A p \in DOMAIN metadata :
                   metadata[p].id \notin {ret[i].metadata.id : i \in DOMAIN ret}
                   => \A i \in DOMAIN ret :
                          ~SimLess(CosineSimilarity(q, ret[i].embedding),
                                   SimAt(q, p))

\* the scenario of the specification: records [1,0], [0,1], [1,1] (the
\* direction of [0.7071, 0.7071]), query [1,0] with top_k = 2 gives the
\* first and the third record, with similarities 1 and 1/sqrt(2)
C6_Witness ==
    /\ last.op = "query"
    /\ last.out.exc = None
    /\ embeddings = <<<<1, 0>>, <<0, 1>>, <<1, 1>>>>
    /\ last.embedding = <<1, 0>>
    /\ last.top_k = 2
    /\ Len(last.out.ret) = 2
    /\ last.out.ret[1].metadata = metadata[1]
    /\ last.out.ret[2].metadata = metadata[3]
    /\ last.out.ret[1].similarity = <<1, 1>>
    /\ last.out.ret[2].similarity = <<1, 2>>

\* C7: of two records equally similar to the query, the one at the lower
\* position comes first in the result, and is the one kept when top_k cuts
\* between them.
C7_TiesLowerPositionFirst ==
    (last.op = "query" /\ last.out.exc = None) =>
        LET ret == last.out.ret
            q == last.embedding
            place(i) == PlaceOf(metadata, ret[i].metadata.id)
        IN  /\ \A i, j \in DOMAIN ret :
                   (i < j /\ SimEq(ret[i].similarity, ret[j].similarity))
                   => place(i) < place(j)
            /\ \A p \in DOMAIN metadata :
                   metadata[p].id \notin {ret[i].metadata.id : i \in DOMAIN ret}
                   => \A i \in DOMAIN ret :
                          SimEq(ret[i].similarity, SimAt(q, p)) => place(i) < p

\* C8: query fails with ValueError("No embeddings in db") exactly when the
\* collection has no records.
C8_EmptyCollection ==
    last.op = "query" =>
        ((last.out.exc = "ValueError" /\ last.out = EmptyCollection)
            <=> Length(metadata) = 0)

\* query has failed on a store that was loaded from a save of an empty
\* store, after identifiers had been drawn
C8_Witness ==
    /\ last.op = "query"
    /\ last.out = EmptyCollection
    /\ embKind = "ndarray"
    /\ "metadata.pkl" \in disk.files
    /\ Len(disk.meta) = 0
    /\ nextUuid > 1

\* C9: get(id) right after an add that returned, with the id drawn by that
\* add, returns the vector and the record {id, text, source, row} passed to
\* it; so does get(length() - 1).
C9_GetAfterAdd ==
    [][(/\ last.op = "add"
        /\ last.out.exc = None
        /\ last'.op = "get"
        /\ last'.key \in {StrKey(Uuid4(nextUuid - 1)),
                          IntKey(Length(metadata) - 1)}) =>
         last'.out = Ok(<<last.embedding.vals,
                          [id |-> Uuid4(nextUuid - 1), text |-> last.text,
                           source |-> last.source, row |-> last.row]>>)
      ]_vars

\* get(id) has returned right after the add that drew id, in a store that
\* already held a record
C9_Witness ==
    /\ last.op = "get"
    /\ last.afterAdd
    /\ last.key = StrKey(Uuid4(nextUuid - 1))
    /\ last.out.exc = None
    /\ Len(metadata) >= 2

\* C10: add returns the identifier it generated, the id of the record it
\* appended.
C10_AddReturnsId ==
    (last.op = "add" /\ last.out.exc = None) =>
        /\ last.out.ret # None
        /\ last.out.ret = metadata[Len(metadata)].id

\* C11: add never fails: every add call returns, appends one record at the
\* end of both lists and leaves the earlier records where they were.
C11_AddNeverFails ==
    [][last'.op = "add" =>
         /\ last'.out.exc = None
         /\ Length(metadata') = Length(metadata) + 1
         /\ Len(embeddings') = Len(embeddings) + 1
         /\ SubSeq(metadata', 1, Len(metadata)) = metadata
         /\ SubSeq(embeddings', 1, Len(embeddings)) = embeddings
         /\ embeddings'[Len(embeddings')] = last'.embedding.vals
      ]_vars

\* C13: get(i) with an integer i fails with IndexError when i >= length() or
\* i < 0, and returns the pair stored at position i when 0 <= i < length().
C13_GetByPosition ==
    (last.op = "get" /\ last.key.type = "int") =>
        LET i == last.key.val IN
        IF i >= Length(metadata) \/ i < 0
        THEN last.out.exc = "IndexError"
        ELSE last.out = Ok(<<embeddings[i + 1], metadata[i + 1]>>)

\* C14: get(key) with a string key returns exactly when key is the id of a
\* record of the collection, and then returns that record's embedding and
\* metadata; otherwise it fails with KeyError.  The collection is unchanged.
C14_GetById ==
    [][(last'.op = "get" /\ last'.key.type = "str") =>
         /\ embeddings' = embeddings
         /\ metadata' = metadata
         /\ IF last'.key.val \in Ids(metadata)
            THEN LET p == PlaceOf(metadata, last'.key.val)
                 IN  /\ last'.out = Ok(<<embeddings[p], metadata[p]>>)
                     /\ last'.out.ret[2].id = last'.key.val
                     /\ last'.out.ret[1] = origin[last'.key.val]
            ELSE last'.out.exc = "KeyError"
      ]_vars

\* get(id) has returned the first of two records that hold different
\* vectors, the record before it having been removed
C14_Witness ==
    /\ last.op = "get"
    /\ last.key.type = "str"
    /\ last.out.exc = None
    /\ Len(metadata) = 2
    /\ last.key.val = metadata[1].id
    /\ metadata[1].id = 2
    /\ embeddings[1] # embeddings[2]

\* C20: every entry of a query result carries the metadata and the embedding
\* stored at one position of the collection, and the similarity of the query
\* vector to that embedding.
C20_ResultsAreRecords ==
    (last.op = "query" /\ last.out.exc = None) =>
        \A i \in DOMAIN last.out.ret :
            LET r == last.out.ret[i] IN
            /\ r.metadata.id \in Ids(metadata)
            /\ LET p == PlaceOf(metadata, r.metadata.id)
               IN  /\ r.metadata = metadata[p]
                   /\ r.embedding = embeddings[p]
                   /\ r.embedding = origin[r.metadata.id]
                   /\ r.similarity = CosineSimilarity(last.embedding,
                                                      embeddings[p])

\* a query has returned both records of a store from which the middle one
\* of three (id 2) was deleted, the later record ranked first
C20_Witness ==
    /\ last.op = "query"
    /\ last.out.exc = None
    /\ disk.files = {}
    /\ Len(metadata) = 2
    /\ metadata[1].id = 1
    /\ metadata[2].id = 3
    /\ Len(last.out.ret) = 2
    /\ last.out.ret[1].metadata.id = 3
    /\ SimLess(last.out.ret[2].similarity, last.out.ret[1].similarity)

\* C18: query, get, length and save leave self.embeddings and self.metadata
\* as they were, whether the call returns or raises.
C18_ReadsChangeNothing ==
    [][last'.op \in {"query", "get", "len", "save"} =>
         /\ embeddings' = embeddings
         /\ metadata' = metadata
         /\ embKind' = embKind
      ]_vars

\* a query has raised on a store of two records
C18_Witness ==
    /\ last.op = "query"
    /\ last.out.exc = "ValueError"
    /\ Len(metadata) = 2
    /\ Len(embeddings) = 2

\* C12: from a new store, after any calls of add and delete, length() is the
\* number of add calls that returned minus the number of delete calls that
\* returned; a delete that raised does not change it.
C12_LengthIsAddsMinusDeletes ==
    tally.on =>
        /\ Length(metadata) = tally.adds - tally.deletes
        /\ last.op = "len" => last.out.ret = tally.adds - tally.deletes

\* len(db) has returned 2 after three adds, one delete that returned and a
\* delete that raised
C12_Witness ==
    /\ tally.on
    /\ last.op = "len"
    /\ last.out.ret = 2
    /\ tally.adds = 3
    /\ tally.deletes = 1
    /\ tally.failed

\* C15: save leaves the two lists as they are, and a load that returns
\* leaves the store holding exactly the records, in order, that were held
\* when save last returned.
C15_SaveLoadRoundTrip ==
    [][/\ (last'.op = "save" /\ last'.out.exc = None) =>
              (embeddings' = embeddings /\ metadata' = metadata)
       /\ (last'.op = "load" /\ last'.out.exc = None) =>
              /\ embeddings' = saved.embeddings
              /\ metadata' = saved.metadata
      ]_vars

\* a load has replaced the records of a store by two saved records that
\* hold different vectors
C15_Witness ==
    /\ last.op = "load"
    /\ last.out.exc = None
    /\ last.replaced
    /\ Len(metadata) = 2
    /\ embeddings[1] # embeddings[2]
    /\ nextUuid > 3

\* C17: query with a vector whose length differs from the length of the
\* stored embeddings fails with a DimensionMismatch error, which is not the
\* error of the empty collection, and changes neither list.
C17_DimensionMismatch ==
    [][(/\ last'.op = "query"
        /\ ~IsEmpty(embeddings)
        /\ \E i \in DOMAIN embeddings :
               Len(embeddings[i]) # Len(last'.embedding)) =>
          /\ last'.out.exc = "DimensionMismatch"
          /\ last'.out # EmptyCollection
          /\ embeddings' = embeddings
          /\ metadata' = metadata
      ]_vars

\* the numbers of records the two files under db_path hold
RowsOnDisk == Len(ArrayRows(disk.emb))
EntriesOnDisk == Len(PickleLoad(disk.meta))

\* C16: load fails with CorruptStore whenever the two files hold different
\* numbers of records, and a load that returns never leaves the embeddings
\* and the metadata with different lengths.
C16_CorruptStore ==
    last.op = "load" =>
        /\ (/\ disk.files = {"embeddings.npz", "metadata.pkl"}
            /\ RowsOnDisk # EntriesOnDisk) => last.out.exc = "CorruptStore"
        /\ last.out.exc = None => Len(embeddings) = Len(metadata)

\* C19: a load that raises leaves the embeddings and the metadata as they
\* were before the call.
C19_FailedLoadChangesNothing ==
    [][(last'.op = "load" /\ last'.out.exc # None) =>
          /\ embeddings' = embeddings
          /\ metadata' = metadata
      ]_vars
====
